---- MODULE Spec2Model ----
(***************************************************************************)
(* Model of grr/lib/aff4_objects/users.py: the per-user notification inbox *)
(* (GRRUser.Notify, DeletePendingNotification, ShowNotifications) and the  *)
(* global notification registry and tracker (GlobalNotificationSet,        *)
(* GlobalNotificationStorage, GRRUser.GetPendingGlobalNotifications,       *)
(* GRRUser.MarkGlobalNotificationAsShown).                                 *)
(*                                                                         *)
(* The AFF4 attribute store is outside the module that is modelled: Get    *)
(* returns the value of a field and Set replaces it.  Each handler is one  *)
(* atomic action (sequential execution).                                   *)
(***************************************************************************)
EXTENDS Integers, Sequences, FiniteSets, TLC

VARIABLES
  now,              \* the clock: time.time() / RDFDatetime.Now()
  pending,          \* GRRUser attribute PENDING_NOTIFICATIONS
  shown,            \* GRRUser attribute SHOWN_NOTIFICATIONS
  notifications,    \* GlobalNotificationStorage attribute NOTIFICATIONS
  shown_global,     \* GRRUser attribute SHOWN_GLOBAL_NOTIFICATIONS
  lastOp,           \* the most recent call and its arguments
  ret,              \* what the most recent call returned or raised
  prevOp,           \* the call before the most recent one
  prevRet,          \* what that call returned or raised
  nCalls,           \* number of calls made so far
  lastAdded,        \* per set and type, the notification added last
  everReturned,     \* notifications GetPendingGlobalNotifications returned
  returned,         \* ... since the registry was last modified
  protected,        \* marked shown, registry unmodified and marks fresh since
  protectedAny,     \* marked shown, registry unmodified and marks returned since
  stamps,           \* the timestamp Notify gave last, and whether one repeated
  password,         \* GRRUser attribute PASSWORD
  pwSet,            \* how the stored password came about
  pwCall,           \* the most recent call of the password methods
  pwRet,            \* what that call returned
  pc,               \* interleaved calls: where each call stands
  local,            \* interleaved calls: the local variables of each call
  events            \* interleaved calls: the reads and writes of the store so far

vars == <<now, pending, shown, notifications, shown_global, lastOp, ret,
          prevOp, prevRet, nCalls, lastAdded, everReturned, returned, protected,
          protectedAny, stamps, password, pwSet, pwCall, pwRet, pc, local,
          events>>

passwordVars == <<password, pwSet, pwCall, pwRet>>
concVars == <<pc, local, events>>

inboxVars == <<pending, shown>>
globalVars == <<notifications, shown_global, lastAdded, everReturned,
                returned, protected, protectedAny>>

----------------------------------------------------------------------------
(* Bounds of the model *)

MaxCalls == 3          \* calls per behaviour of the inbox
MaxGlobalCalls == 5    \* calls per behaviour of the global notifications
MaxTicks == 2          \* clock ticks per behaviour

(* Program constants *)

MaxPending == 50       \* "while len(pending) > 50"
TwoWeeks == 2          \* rdfvalue.Duration("2w"), the clock of the global
                       \* notifications counts weeks

T0 == MaxPending       \* the clock at Init
MaxTime == T0 + MaxTicks

----------------------------------------------------------------------------
(* Notifications of the inbox *)

notification_types == {"ViewObject", "GrantAccess"}

MessageTypes == notification_types \cup {"NoSuchType"}

Notification(type, subject, msg, source, timestamp) ==
  [type |-> type, subject |-> subject, message |-> msg, source |-> source,
   timestamp |-> timestamp]

\* A stored pending list left by k earlier Notify calls, one per microsecond.
Fill(k) ==
  [i \in 1..k |-> Notification("ViewObject", "aff4:/C.1", "m", "flow", i)]

InitPending == {Fill(0), Fill(MaxPending - 1), Fill(MaxPending)}

DeleteArgs == {1} \cup (T0..MaxTime)

NoGN == [type |-> -1, message |-> "", show_from |-> 0, duration |-> 0]

Call(op, type, ts, reset, gn) ==
  [op |-> op, type |-> type, ts |-> ts, reset |-> reset, gn |-> gn]

Returned(result) == [raised |-> "", result |-> result, reads |-> <<>>]
Raised(err) == [raised |-> err, result |-> <<>>, reads |-> <<>>]

\* Bookkeeping of a call: what was called and how it ended.
Log(call, r) ==
  /\ nCalls' = nCalls + 1
  /\ lastOp' = call
  /\ ret' = r
  /\ prevOp' = lastOp
  /\ prevRet' = ret

----------------------------------------------------------------------------
(* GRRUser.Notify *)

\* Variants of the expiry loop: one that never expires, one that drops the
\* newest entry instead of the oldest.
ExpireNever(p) == p

RECURSIVE ExpireNewest(_)
ExpireNewest(p) ==
  IF Len(p) > MaxPending THEN ExpireNewest(SubSeq(p, 1, Len(p) - 1)) ELSE p

\* while len(pending) > 50: pending.Pop(0)
RECURSIVE Expire(_)
Expire(p) == IF Len(p) > MaxPending THEN Expire(Tail(p)) ELSE p

NotifyPending(p, type, timestamp) ==
  Expire(Append(p, Notification(type, "aff4:/C.1", "m", "flow", timestamp)))

\* Variant of the type check that accepts every type.
IsValidTypeAny(message_type) == TRUE

\* message_type in rdf_flows.Notification.notification_types
IsValidType(message_type) == message_type \in notification_types

\* The record of the timestamps given: the last one, and whether a timestamp
\* was given twice (the clock never goes back).
Stamped(st, timestamp) ==
  [last |-> timestamp, repeated |-> st.repeated \/ timestamp <= st.last]

Notify(message_type) ==
  /\ nCalls < MaxCalls
  /\ IF ~IsValidType(message_type)
       THEN /\ Log(Call("Notify", message_type, 0, FALSE, NoGN),
                   Raised("TypeError"))
            /\ UNCHANGED <<pending, shown>>
       ELSE /\ pending' = NotifyPending(pending, message_type, now)
            /\ Log(Call("Notify", message_type, 0, FALSE, NoGN),
                   Returned(<<>>))
            /\ UNCHANGED shown
  /\ stamps' = IF IsValidType(message_type) THEN Stamped(stamps, now)
                ELSE stamps
  /\ UNCHANGED <<now, globalVars, passwordVars, concVars>>

----------------------------------------------------------------------------
(* GRRUser.DeletePendingNotification *)

\* Variant of the loop that puts a match at the front of shown.
RECURSIVE DeleteLoopFront(_, _, _)
DeleteLoopFront(st, idx, timestamp) ==
  IF idx = 0 THEN st
  ELSE IF st.pending[idx].timestamp = timestamp
    THEN DeleteLoopFront(
           [pending |-> SubSeq(st.pending, 1, idx - 1)
                          \o SubSeq(st.pending, idx + 1, Len(st.pending)),
            shown |-> <<st.pending[idx]>> \o st.shown,
            delete_count |-> st.delete_count + 1],
           idx - 1, timestamp)
    ELSE DeleteLoopFront(st, idx - 1, timestamp)

\* Variant of the loop that drops a match instead of showing it.
RECURSIVE DeleteLoopDrop(_, _, _)
DeleteLoopDrop(st, idx, timestamp) ==
  IF idx = 0 THEN st
  ELSE IF st.pending[idx].timestamp = timestamp
    THEN DeleteLoopDrop(
           [pending |-> SubSeq(st.pending, 1, idx - 1)
                          \o SubSeq(st.pending, idx + 1, Len(st.pending)),
            shown |-> st.shown,
            delete_count |-> st.delete_count + 1],
           idx - 1, timestamp)
    ELSE DeleteLoopDrop(st, idx - 1, timestamp)

\* Variant of the loop that takes the entries from the given timestamp on.
RECURSIVE DeleteLoopAtLeast(_, _, _)
DeleteLoopAtLeast(st, idx, timestamp) ==
  IF idx = 0 THEN st
  ELSE IF st.pending[idx].timestamp >= timestamp
    THEN DeleteLoopAtLeast(
           [pending |-> SubSeq(st.pending, 1, idx - 1)
                          \o SubSeq(st.pending, idx + 1, Len(st.pending)),
            shown |-> Append(st.shown, st.pending[idx]),
            delete_count |-> 1],
           idx - 1, timestamp)
    ELSE DeleteLoopAtLeast(st, idx - 1, timestamp)

\* Variant of the loop that shows a match and leaves it pending.
RECURSIVE DeleteLoopCopy(_, _, _)
DeleteLoopCopy(st, idx, timestamp) ==
  IF idx = 0 THEN st
  ELSE IF st.pending[idx].timestamp = timestamp
    THEN DeleteLoopCopy(
           [pending |-> st.pending,
            shown |-> Append(st.shown, st.pending[idx]),
            delete_count |-> st.delete_count + 1],
           idx - 1, timestamp)
    ELSE DeleteLoopCopy(st, idx - 1, timestamp)

\* The loop over reversed(range(0, len(pending))), from index idx down to 1
\* (1-based); st is [pending, shown, delete_count].
RECURSIVE DeleteLoop(_, _, _)
DeleteLoop(st, idx, timestamp) ==
  IF idx = 0 THEN st
  ELSE IF st.pending[idx].timestamp = timestamp
    THEN DeleteLoop(
           [pending |-> SubSeq(st.pending, 1, idx - 1)
                          \o SubSeq(st.pending, idx + 1, Len(st.pending)),
            shown |-> Append(st.shown, st.pending[idx]),
            delete_count |-> st.delete_count + 1],
           idx - 1, timestamp)
    ELSE DeleteLoop(st, idx - 1, timestamp)

DeleteCall(timestamp) ==
  Call("DeletePendingNotification", "", timestamp, FALSE, NoGN)

DeletePendingNotification(timestamp) ==
  /\ nCalls < MaxCalls
  /\ IF pending = <<>>
       THEN /\ Log(DeleteCall(timestamp), Returned(<<>>))
            /\ UNCHANGED <<pending, shown>>
       ELSE LET st == DeleteLoop([pending |-> pending, shown |-> shown,
                                  delete_count |-> 0],
                                 Len(pending), timestamp)
            IN IF st.delete_count > 1
                 THEN /\ Log(DeleteCall(timestamp), Raised("UniqueKeyError"))
                      /\ UNCHANGED <<pending, shown>>
                 ELSE /\ pending' = st.pending
                      /\ shown' = st.shown
                      /\ Log(DeleteCall(timestamp), Returned(<<>>))
  /\ UNCHANGED <<now, globalVars, stamps, passwordVars, concVars>>

----------------------------------------------------------------------------
(* GRRUser.ShowNotifications *)

\* Variants of the merge: one that forgets the shown notifications, one that
\* puts them first.
MergedPendingOnly(p, s) == p
MergedShownFirst(p, s) == s \o p

\* Pending notifications first, then the shown ones.
Merged(p, s) == p \o s

ShowNotifications(reset) ==
  /\ nCalls < MaxCalls
  /\ Log(Call("ShowNotifications", "", 0, reset, NoGN),
         Returned(Merged(pending, shown)))
  /\ IF reset
       THEN /\ shown' = Merged(pending, shown)
            /\ pending' = <<>>
       ELSE UNCHANGED <<pending, shown>>
  /\ UNCHANGED <<now, globalVars, stamps, passwordVars, concVars>>

----------------------------------------------------------------------------
(* The clock *)

Tick ==
  /\ now < MaxTime
  /\ now' = now + 1
  /\ UNCHANGED <<inboxVars, globalVars, lastOp, ret, prevOp, prevRet, nCalls,
                 stamps, passwordVars, concVars>>

----------------------------------------------------------------------------
(* The inbox of one user, calls executed one after another *)

\* No password is stored and no interleaved call has started.
InitOther ==
  /\ stamps = [last |-> Len(pending), repeated |-> FALSE]
  /\ password = <<>>
  /\ pwSet = [kind |-> "none", password |-> <<>>, salt |-> <<>>]
  /\ pwCall = [op |-> "", password |-> <<>>, a |-> <<>>, b |-> <<>>]
  /\ pwRet = [outcome |-> "", salt |-> <<>>, steps |-> 0]
  /\ pc = [c \in {"n1", "n2", "s"} |-> "start"]
  /\ local = [c \in {"n1", "n2", "s"} |-> [pending |-> <<>>, shown |-> <<>>]]
  /\ events = <<>>

Init ==
  /\ now = T0
  /\ pending \in InitPending
  /\ shown = <<>>
  /\ notifications = <<>>
  /\ shown_global = <<>>
  /\ lastOp = Call("", "", 0, FALSE, NoGN)
  /\ ret = Returned(<<>>)
  /\ prevOp = Call("", "", 0, FALSE, NoGN)
  /\ prevRet = Returned(<<>>)
  /\ nCalls = 0
  /\ lastAdded = [s \in {"registry", "user"} |-> [t \in {0, 1, 2} |-> NoGN]]
  /\ everReturned = {}
  /\ returned = {}
  /\ protected = {}
  /\ protectedAny = {}
  /\ InitOther

Next ==
  \/ \E message_type \in MessageTypes : Notify(message_type)
  \/ \E timestamp \in DeleteArgs : DeletePendingNotification(timestamp)
  \/ \E reset \in BOOLEAN : ShowNotifications(reset)
  \/ Tick

Spec == Init /\ [][Next]_vars

----------------------------------------------------------------------------
(* GlobalNotification and GlobalNotificationSet *)

\* The notification types of jobs_pb2.GlobalNotification: INFO, WARNING, ERROR.
GNTypes == {0, 1, 2}

\* GlobalNotification.__init__ at time t: an unset (zero) duration becomes two
\* weeks, an unset (zero) show_from becomes the time of construction.
GlobalNotification(type, message, show_from, duration, t) ==
  [type |-> type, message |-> message,
   show_from |-> IF show_from = 0 THEN t ELSE show_from,
   duration |-> IF duration = 0 THEN TwoWeeks ELSE duration]

Range(s) == {s[i] : i \in 1..Len(s)}

\* sorted(current_list, key=lambda x: x.type), a stable sort: each entry goes
\* behind the entries whose type is not greater.
InsertByType(x, s) ==
  LET k == Cardinality({i \in 1..Len(s) : s[i].type <= x.type})
  IN SubSeq(s, 1, k) \o <<x>> \o SubSeq(s, k + 1, Len(s))

RECURSIVE SortedByType(_)
SortedByType(s) ==
  IF s = <<>> THEN <<>>
  ELSE InsertByType(s[Len(s)], SortedByType(SubSeq(s, 1, Len(s) - 1)))

\* The entries of another type, in their order.
RECURSIVE OtherTypes(_, _)
OtherTypes(s, type) ==
  IF s = <<>> THEN <<>>
  ELSE IF Head(s).type # type
    THEN <<Head(s)>> \o OtherTypes(Tail(s), type)
    ELSE OtherTypes(Tail(s), type)

\* Variants of AddNotification: one that keeps the entries of the same type,
\* one that keeps the entries of the same type only.
SetAddNotificationKeep(set, new_notification) ==
  SortedByType(Append(set, new_notification))

SetAddNotificationSameType(set, new_notification) ==
  LET same == {i \in 1..Len(set) : set[i].type = new_notification.type}
  IN SortedByType(Append(IF same = {} THEN <<>> ELSE <<set[CHOOSE i \in same : TRUE]>>,
                         new_notification))

\* GlobalNotificationSet.AddNotification
SetAddNotification(set, new_notification) ==
  SortedByType(Append(OtherTypes(set, new_notification.type), new_notification))

\* Variant of the membership test that compares the types only.
ContainsType(set, notification) ==
  \E i \in 1..Len(set) : set[i].type = notification.type

\* GlobalNotificationSet.__contains__: structural equality with an entry.
Contains(set, notification) ==
  \E i \in 1..Len(set) : set[i] = notification

----------------------------------------------------------------------------
(* GlobalNotificationStorage.AddNotification *)

\* What an administrator passes to the constructor: type, message, show_from,
\* duration (zero: unset).
AddArgs ==
  {<<0, "a", <<0, 0>>>>, <<0, "b", <<0, 1>>>>, <<1, "b", <<T0 + 1, 1>>>>,
   <<2, "b", <<0, 0>>>>}

StorageAddNotification(type, message, show_from, duration) ==
  LET new_notification ==
        GlobalNotification(type, message, show_from, duration, now)
  IN /\ nCalls < MaxGlobalCalls
     /\ notifications' = SetAddNotification(notifications, new_notification)
     /\ Log(Call("AddNotification", "", 0, FALSE, new_notification),
            Returned(<<>>))
     /\ lastAdded' = [lastAdded EXCEPT !["registry"][type] = new_notification]
     /\ returned' = {}
     /\ protected' = {}
     /\ protectedAny' = {}
     /\ UNCHANGED <<now, inboxVars, shown_global, everReturned, stamps,
                    passwordVars, concVars>>

----------------------------------------------------------------------------
(* GRRUser.GetPendingGlobalNotifications *)

\* Variant of the window test that leaves out the two ends of the window.
InWindowOpen(notification, current_time) ==
  /\ notification.show_from + notification.duration > current_time
  /\ current_time > notification.show_from

\* show_from + duration >= current_time and current_time >= show_from
InWindow(notification, current_time) ==
  /\ notification.show_from + notification.duration >= current_time
  /\ current_time >= notification.show_from

\* The loop over the registry's notifications from index idx on; reads[i] is
\* what RDFDatetime.Now() returns while notification i is examined.
RECURSIVE PendingLoop(_, _, _, _)
PendingLoop(current_notifications, shown_notifications, reads, idx) ==
  IF idx > Len(current_notifications) THEN <<>>
  ELSE LET notification == current_notifications[idx]
           rest == PendingLoop(current_notifications, shown_notifications,
                               reads, idx + 1)
       IN IF Contains(shown_notifications, notification) THEN rest
          ELSE IF InWindow(notification, reads[idx])
            THEN <<notification>> \o rest
            ELSE rest

\* The clock readings of one call: they start at now, never go back and
\* advance by at most one tick during the call.
ClockReads(n) ==
  {reads \in [1..n -> now..(IF now < MaxTime THEN now + 1 ELSE now)] :
     \A i \in 1..n : \A j \in i..n : reads[i] <= reads[j]}

GetPendingGlobalNotifications ==
  /\ nCalls < MaxGlobalCalls
  /\ \E reads \in ClockReads(Len(notifications)) :
       LET result == PendingLoop(notifications, shown_global, reads, 1)
       IN /\ Log(Call("GetPendingGlobalNotifications", "", 0, FALSE, NoGN),
                 [raised |-> "", result |-> result, reads |-> reads])
          /\ now' = IF reads = <<>> THEN now ELSE reads[Len(reads)]
          /\ everReturned' = everReturned \cup Range(result)
          /\ returned' = returned \cup Range(result)
  /\ UNCHANGED <<inboxVars, notifications, shown_global, lastAdded,
                 protected, protectedAny, stamps, passwordVars, concVars>>

----------------------------------------------------------------------------
(* GRRUser.MarkGlobalNotificationAsShown *)

\* A notification that was never in the registry.
Foreign == GlobalNotification(0, "x", T0, 1, T0)

\* What a user can pass: a notification of the registry, one that an earlier
\* call returned, or one from elsewhere.
MarkArgs == Range(notifications) \cup everReturned \cup {Foreign}

MarkGlobalNotificationAsShown(notification) ==
  /\ nCalls < MaxGlobalCalls
  /\ shown_global' = SetAddNotification(shown_global, notification)
  /\ Log(Call("MarkGlobalNotificationAsShown", "", 0, FALSE, notification),
         Returned(<<>>))
  /\ lastAdded' = [lastAdded EXCEPT !["user"][notification.type] = notification]
  /\ protected' = IF notification \in returned
                    THEN protected \cup {notification} ELSE {notification}
  /\ protectedAny' = IF notification \in everReturned
                       THEN protectedAny \cup {notification} ELSE {notification}
  /\ UNCHANGED <<now, inboxVars, notifications, everReturned, returned,
                 stamps, passwordVars, concVars>>

----------------------------------------------------------------------------
(* The registry and one user's tracker, calls executed one after another *)

\* A registry left by three earlier AddNotification calls at time T0 - 1:
\* one notification per type, the second not yet visible at T0.
InitRegistry ==
  <<GlobalNotification(0, "a", T0, 1, T0 - 1),
    GlobalNotification(1, "a", T0 + 1, 1, T0 - 1),
    GlobalNotification(2, "a", 0, 0, T0 - 1)>>

InitGlobal ==
  /\ now = T0
  /\ pending = <<>>
  /\ shown = <<>>
  /\ notifications \in {<<>>, InitRegistry}
  /\ shown_global = <<>>
  /\ lastOp = Call("", "", 0, FALSE, NoGN)
  /\ ret = Returned(<<>>)
  /\ prevOp = Call("", "", 0, FALSE, NoGN)
  /\ prevRet = Returned(<<>>)
  /\ nCalls = 0
  /\ lastAdded =
       [s \in {"registry", "user"} |->
          [t \in GNTypes |->
             IF s = "registry" /\ notifications # <<>>
               THEN notifications[t + 1] ELSE NoGN]]
  /\ everReturned = {}
  /\ returned = {}
  /\ protected = {}
  /\ protectedAny = {}
  /\ InitOther

NextGlobal ==
  \/ \E a \in AddArgs : StorageAddNotification(a[1], a[2], a[3][1], a[3][2])
  \/ GetPendingGlobalNotifications
  \/ \E notification \in MarkArgs : MarkGlobalNotificationAsShown(notification)
  \/ Tick

SpecGlobal == InitGlobal /\ [][NextGlobal]_vars

----------------------------------------------------------------------------
(* CryptedPassword: strings are sequences of characters *)

MaxStrLen == 2         \* longest argument of a direct safe_str_cmp call

DigestLen == 64        \* length of hashlib.sha256(...).hexdigest()
SaltDigits == 8        \* "%08x"

HexDigits ==
  <<"0", "1", "2", "3", "4", "5", "6", "7", "8", "9", "a", "b", "c", "d",
    "e", "f">>

\* ord() of the characters that occur.
Ord ==
  [c \in {"$", "h", "s"} \cup Range(HexDigits) |->
     CASE c = "$" -> 36
       [] c = "h" -> 104
       [] c = "s" -> 115
       [] c \in {"a", "b", "c", "d", "e", "f"} ->
            86 + (CHOOSE i \in 11..16 : HexDigits[i] = c)
       [] OTHER -> 47 + (CHOOSE i \in 1..10 : HexDigits[i] = c)]

\* "%0<width>x" % n
RECURSIVE Hex(_, _)
Hex(n, width) ==
  IF width <= 0 /\ n = 0 THEN <<>>
  ELSE Append(Hex(n \div 16, width - 1), HexDigits[(n % 16) + 1])

\* The codes of the characters of x, two hex digits each.
HexOfChars(x) ==
  [i \in 1..(2 * Len(x)) |->
     Hex(Ord[x[(i + 1) \div 2]], 2)[2 - (i % 2)]]

\* hashlib.sha256(x).hexdigest() as an injective function to DigestLen hex
\* digits: the codes of the characters, filled up with "f" (no code starts
\* with that digit).
Hash(x) ==
  LET h == HexOfChars(x)
  IN h \o [i \in 1..(DigestLen - Len(h)) |-> "f"]

\* "%s$%s$%s" % ("sha256", salt, pwhash)
MakeTemplate(pwhash, salt) ==
  <<"s", "h", "a", "2", "5", "6">> \o <<"$">> \o salt \o <<"$">> \o pwhash

\* ^ on the codes of characters
RECURSIVE BitXor(_, _)
BitXor(x, y) ==
  IF x = 0 /\ y = 0 THEN 0
  ELSE ((x + y) % 2) + 2 * BitXor(x \div 2, y \div 2)

\* Bit k of x.
Bit(x, k) == (x \div (2 ^ k)) % 2

\* x1 | x2 | ... of the numbers of a set (codes have eight bits).
BitOrAll(xs) ==
  LET bit(k) == IF \E x \in xs : Bit(x, k) = 1 THEN 2 ^ k ELSE 0
  IN bit(0) + bit(1) + bit(2) + bit(3) + bit(4) + bit(5) + bit(6) + bit(7)

Min(x, y) == IF x <= y THEN x ELSE y

\* Variant of the loop that stops at the first pair that differs.
CmpLoopEarlyExit(a, b) ==
  LET n == Min(Len(a), Len(b))
      diff == {i \in 1..n : a[i] # b[i]}
      stop == IF diff = {} THEN n ELSE CHOOSE i \in diff : \A j \in diff : i <= j
  IN [rv |-> BitOrAll({BitXor(Ord[a[i]], Ord[b[i]]) : i \in 1..stop}),
      steps |-> stop]

\* rv = 0; for x, y in itertools.izip(a, b): rv |= ord(x) ^ ord(y)
\* izip makes as many pairs as the shorter string has characters.
CmpLoop(a, b) ==
  LET n == Min(Len(a), Len(b))
  IN [rv |-> BitOrAll({BitXor(Ord[a[i]], Ord[b[i]]) : i \in 1..n}),
      steps |-> n]

\* CryptedPassword.safe_str_cmp: the result and the number of loop steps.
safe_str_cmp(a, b) ==
  IF Len(a) # Len(b) THEN [result |-> FALSE, steps |-> 0]
  ELSE LET st == CmpLoop(a, b)
       IN [result |-> (st.rv = 0), steps |-> st.steps]

\* CryptedPassword._CalculateHash
CalculateHash(pw, salt) == MakeTemplate(Hash(salt \o pw \o salt), salt)

\* Variant of SetPassword that hashes with the salt in front only.
SetPasswordSaltOnce(pw, salt, ulong) ==
  LET used == IF salt = <<>> THEN Hex(ulong, SaltDigits) ELSE salt[1]
  IN MakeTemplate(Hash(used \o pw), used)

\* CryptedPassword.SetPassword: salt is <<>> for None and <<s>> for a given
\* salt s; ulong is what utils.PRNG.GetULong() returns.
SetPassword(pw, salt, ulong) ==
  CalculateHash(pw, IF salt = <<>> THEN Hex(ulong, SaltDigits) ELSE salt[1])

\* value.split("$"): the fields between the separators.
Split(value) ==
  LET seps == {i \in 1..Len(value) : value[i] = "$"}
      n == Cardinality(seps)
      sep(k) == IF k = 0 THEN 0
                ELSE IF k = n + 1 THEN Len(value) + 1
                ELSE CHOOSE i \in seps : Cardinality({j \in seps : j <= i}) = k
  IN [k \in 1..(n + 1) |-> SubSeq(value, sep(k - 1) + 1, sep(k) - 1)]

\* value.startswith(prefix)
StartsWith(value, prefix) ==
  Len(value) >= Len(prefix) /\ SubSeq(value, 1, Len(prefix)) = prefix

\* crypt.crypt(password, salt) of the platform, as an injective function.
Crypt(pw, salt) == salt \o HexOfChars(pw)

\* CryptedPassword._CheckLegacyPassword
CheckLegacyPassword(value, pw) == Crypt(pw, SubSeq(value, 1, 2)) = value

\* CryptedPassword.CheckPassword: the result, the salt it used and the loop
\* steps of the comparison.
CheckPassword(value, pw) ==
  IF ~StartsWith(value, <<"s", "h", "a", "2", "5", "6", "$">>)
    THEN [outcome |-> IF CheckLegacyPassword(value, pw) THEN "True" ELSE "False",
          salt |-> SubSeq(value, 1, 2), steps |-> 0]
    ELSE LET salt == Split(value)[2]
             cmp == safe_str_cmp(value, CalculateHash(pw, salt))
         IN [outcome |-> IF cmp.result THEN "True" ELSE "False",
             salt |-> salt, steps |-> cmp.steps]

----------------------------------------------------------------------------
(* The password of one user *)

Passwords == {<<>>, <<"a">>, <<"b">>, <<"a", "b">>, <<"$">>}
GivenSalts == {<<>>, <<"a">>, <<"0", "1">>, <<"$">>, <<"a", "$", "b">>}
ULongs == {0, 171, 2147483647}

\* The strings of at most n characters over "a", "b", "$".
RECURSIVE Strings(_)
Strings(n) ==
  IF n = 0 THEN {<<>>}
  ELSE Strings(n - 1) \cup
         {Append(x, c) : x \in {y \in Strings(n - 1) : Len(y) = n - 1},
                         c \in {"a", "b", "$"}}

PwCall(op, pw, a, b) == [op |-> op, password |-> pw, a |-> a, b |-> b]

\* GRRUser.SetPassword: the salt is generated.
UserSetPassword(pw, ulong) ==
  /\ password' = <<SetPassword(pw, <<>>, ulong)>>
  /\ pwSet' = [kind |-> "generated", password |-> pw,
               salt |-> Hex(ulong, SaltDigits)]
  /\ pwCall' = PwCall("SetPassword", pw, <<>>, <<>>)
  /\ pwRet' = [outcome |-> "", salt |-> <<>>, steps |-> 0]
  /\ UNCHANGED <<now, inboxVars, globalVars, lastOp, ret, prevOp, prevRet,
                 nCalls, stamps, concVars>>

\* CryptedPassword.SetPassword with a given salt, stored as the password.
SetPasswordWithSalt(pw, salt) ==
  /\ password' = <<SetPassword(pw, <<salt>>, 0)>>
  /\ pwSet' = [kind |-> "given", password |-> pw, salt |-> salt]
  /\ pwCall' = PwCall("SetPassword", pw, <<>>, <<>>)
  /\ pwRet' = [outcome |-> "", salt |-> <<>>, steps |-> 0]
  /\ UNCHANGED <<now, inboxVars, globalVars, lastOp, ret, prevOp, prevRet,
                 nCalls, stamps, concVars>>

\* Variant of GRRUser.CheckPassword that turns an absent password into False.
UserCheckPasswordBool(password_obj, pw) ==
  IF password_obj = <<>> THEN [outcome |-> "False", salt |-> <<>>, steps |-> 0]
  ELSE CheckPassword(password_obj[1], pw)

\* GRRUser.CheckPassword: password_obj and password_obj.CheckPassword(...);
\* an absent password_obj (None) is returned as it is.
UserCheckPassword(password_obj, pw) ==
  IF password_obj = <<>> THEN [outcome |-> "None", salt |-> <<>>, steps |-> 0]
  ELSE CheckPassword(password_obj[1], pw)

DoCheckPassword(pw) ==
  /\ pwCall' = PwCall("CheckPassword", pw, <<>>, <<>>)
  /\ pwRet' = UserCheckPassword(password, pw)
  /\ UNCHANGED <<now, inboxVars, globalVars, lastOp, ret, prevOp, prevRet,
                 nCalls, stamps, password, pwSet, concVars>>

\* A direct call of safe_str_cmp.
DoSafeStrCmp(a, b) ==
  /\ pwCall' = PwCall("safe_str_cmp", <<>>, a, b)
  /\ pwRet' = LET cmp == safe_str_cmp(a, b)
              IN [outcome |-> IF cmp.result THEN "True" ELSE "False",
                  salt |-> <<>>, steps |-> cmp.steps]
  /\ UNCHANGED <<now, inboxVars, globalVars, lastOp, ret, prevOp, prevRet,
                 nCalls, stamps, password, pwSet, concVars>>

\* No password is set, or a password of the legacy format is stored.
InitPassword ==
  /\ now = T0
  /\ pending = <<>>
  /\ shown = <<>>
  /\ notifications = <<>>
  /\ shown_global = <<>>
  /\ lastOp = Call("", "", 0, FALSE, NoGN)
  /\ ret = Returned(<<>>)
  /\ prevOp = Call("", "", 0, FALSE, NoGN)
  /\ prevRet = Returned(<<>>)
  /\ nCalls = 0
  /\ lastAdded = [s \in {"registry", "user"} |-> [t \in {0, 1, 2} |-> NoGN]]
  /\ everReturned = {}
  /\ returned = {}
  /\ protected = {}
  /\ protectedAny = {}
  /\ stamps = [last |-> 0, repeated |-> FALSE]
  /\ \/ /\ password = <<>>
        /\ pwSet = [kind |-> "none", password |-> <<>>, salt |-> <<>>]
     \/ /\ password = <<Crypt(<<"a">>, <<"a", "b">>)>>
        /\ pwSet = [kind |-> "legacy", password |-> <<"a">>,
                    salt |-> <<"a", "b">>]
  /\ pwCall = PwCall("", <<>>, <<>>, <<>>)
  /\ pwRet = [outcome |-> "", salt |-> <<>>, steps |-> 0]
  /\ pc = [c \in {"n1", "n2", "s"} |-> "start"]
  /\ local = [c \in {"n1", "n2", "s"} |-> [pending |-> <<>>, shown |-> <<>>]]
  /\ events = <<>>

NextPassword ==
  \/ \E pw \in Passwords, ulong \in ULongs : UserSetPassword(pw, ulong)
  \/ \E pw \in Passwords, salt \in GivenSalts : SetPasswordWithSalt(pw, salt)
  \/ \E pw \in Passwords : DoCheckPassword(pw)

SpecPassword == InitPassword /\ [][NextPassword]_vars

\* Direct calls of safe_str_cmp on all pairs of short strings.
NextCmp ==
  \E a \in Strings(MaxStrLen), b \in Strings(MaxStrLen) : DoSafeStrCmp(a, b)

SpecCmp == InitPassword /\ [][NextCmp]_vars

----------------------------------------------------------------------------
(* Interleaved calls for one user on a store where the last write of a     *)
(* field wins: two Notify calls (n1, n2) and one ShowNotifications(True)   *)
(* call (s), each step one Get or one write of a field.                    *)

Notifiers == {"n1", "n2"}

\* The message_type each Notify call is given.
TypeOf(c) == IF c = "n1" THEN "ViewObject" ELSE "GrantAccess"

Event(c, kind, field, entry) ==
  [c |-> c, kind |-> kind, field |-> field, entry |-> entry]

\* Variant of Notify that appends to what the store holds when it writes.
NotifyWrittenFresh(snapshot, stored, type, timestamp) ==
  NotifyPending(stored, type, timestamp)

\* What Notify writes at line 223: the list it got at line 205 with the new
\* entry, whatever the store holds by then.
NotifyWritten(snapshot, stored, type, timestamp) ==
  NotifyPending(snapshot, type, timestamp)

\* pending = self.Get(self.Schema.PENDING_NOTIFICATIONS)
NotifyGet(c) ==
  /\ pc[c] = "start"
  /\ pc' = [pc EXCEPT ![c] = "got"]
  /\ local' = [local EXCEPT ![c].pending = pending]
  /\ events' = Append(events, Event(c, "read", "pending", <<>>))
  /\ UNCHANGED <<now, inboxVars, globalVars, lastOp, ret, prevOp, prevRet,
                 nCalls, stamps, passwordVars>>

\* pending.Append(...), the expiry loop and self.Set(...)
NotifySet(c) ==
  /\ pc[c] = "got"
  /\ pc' = [pc EXCEPT ![c] = "done"]
  /\ pending' = NotifyWritten(local[c].pending, pending, TypeOf(c), now)
  /\ events' = Append(events,
                      Event(c, "write", "pending",
                            <<Notification(TypeOf(c), "aff4:/C.1", "m", "flow",
                                           now)>>))
  /\ UNCHANGED <<now, shown, globalVars, lastOp, ret, prevOp, prevRet,
                 nCalls, stamps, passwordVars, local>>

\* pending = self.Get(self.Schema.PENDING_NOTIFICATIONS, [])
ShowGetPending ==
  /\ pc["s"] = "start"
  /\ pc' = [pc EXCEPT !["s"] = "gotPending"]
  /\ local' = [local EXCEPT !["s"].pending = pending]
  /\ events' = Append(events, Event("s", "read", "pending", <<>>))
  /\ UNCHANGED <<now, inboxVars, globalVars, lastOp, ret, prevOp, prevRet,
                 nCalls, stamps, passwordVars>>

\* notifications = self.Get(self.Schema.SHOWN_NOTIFICATIONS, [])
ShowGetShown ==
  /\ pc["s"] = "gotPending"
  /\ pc' = [pc EXCEPT !["s"] = "gotShown"]
  /\ local' = [local EXCEPT !["s"].shown = shown]
  /\ events' = Append(events, Event("s", "read", "shown", <<>>))
  /\ UNCHANGED <<now, inboxVars, globalVars, lastOp, ret, prevOp, prevRet,
                 nCalls, stamps, passwordVars>>

\* Variant of the reset that stores the pending list it read.
ShowResetPendingKeep(read_pending) == read_pending

\* self.Set(self.Schema.PENDING_NOTIFICATIONS()): what the reset stores as
\* pending after it read read_pending.
ShowResetPending(read_pending) == <<>>

\* self.Set(shown_notifications) reaching the store; Flush writes the two
\* fields in an order the store decides.
ShowSetShown ==
  /\ pc["s"] \in {"gotShown", "wrotePending"}
  /\ pc' = [pc EXCEPT !["s"] = IF pc["s"] = "gotShown" THEN "wroteShown"
                                 ELSE "done"]
  /\ shown' = Merged(local["s"].pending, local["s"].shown)
  /\ events' = Append(events, Event("s", "write", "shown", <<>>))
  /\ UNCHANGED <<now, pending, globalVars, lastOp, ret, prevOp, prevRet,
                 nCalls, stamps, passwordVars, local>>

\* self.Set(self.Schema.PENDING_NOTIFICATIONS()) reaching the store
ShowSetPending ==
  /\ pc["s"] \in {"gotShown", "wroteShown"}
  /\ pc' = [pc EXCEPT !["s"] = IF pc["s"] = "gotShown" THEN "wrotePending"
                                 ELSE "done"]
  /\ pending' = ShowResetPending(local["s"].pending)
  /\ events' = Append(events, Event("s", "write", "pending", <<>>))
  /\ UNCHANGED <<now, shown, globalVars, lastOp, ret, prevOp, prevRet,
                 nCalls, stamps, passwordVars, local>>

\* The stored lists the calls may find: nothing, one entry, or one entry
\* less than the limit.
InitConcPending == {Fill(0), Fill(1), Fill(MaxPending - 1)}

InitConc ==
  /\ now = T0
  /\ pending \in InitConcPending
  /\ shown = <<>>
  /\ notifications = <<>>
  /\ shown_global = <<>>
  /\ lastOp = Call("", "", 0, FALSE, NoGN)
  /\ ret = Returned(<<>>)
  /\ prevOp = Call("", "", 0, FALSE, NoGN)
  /\ prevRet = Returned(<<>>)
  /\ nCalls = 0
  /\ lastAdded = [s \in {"registry", "user"} |-> [t \in {0, 1, 2} |-> NoGN]]
  /\ everReturned = {}
  /\ returned = {}
  /\ protected = {}
  /\ protectedAny = {}
  /\ InitOther

NextConc ==
  \/ \E c \in Notifiers : NotifyGet(c)
  \/ \E c \in Notifiers : NotifySet(c)
  \/ ShowGetPending
  \/ ShowGetShown
  \/ ShowSetShown
  \/ ShowSetPending
  \/ Tick

SpecConc == InitConc /\ [][NextConc]_vars

----------------------------------------------------------------------------
(* Properties of the inbox *)

\* A step that is a call of op (the clock's ticks are not calls).
IsCall(op) == nCalls' = nCalls + 1 /\ lastOp'.op = op

\* The entry Notify appends: the given type, the time of the call.
NewEntry(type) == Notification(type, "aff4:/C.1", "m", "flow", now)

\* Indices of the pending entries with the given timestamp.
Matches(timestamp) ==
  {i \in 1..Len(pending) : pending[i].timestamp = timestamp}

\* s without its i-th entry.
Without(s, i) == [j \in 1..(Len(s) - 1) |-> IF j < i THEN s[j] ELSE s[j + 1]]

\* C1: the pending list written by a Notify call never holds more than 50
\* entries, whatever the calls before it.
C1_PendingAtMost50 ==
  (lastOp.op = "Notify" /\ ret.raised = "") => Len(pending) <= MaxPending

\* Two Notify calls in a row on a full list: two entries were expired.
C1_Witness ==
  /\ lastOp.op = "Notify" /\ ret.raised = ""
  /\ prevOp.op = "Notify" /\ prevRet.raised = ""
  /\ Len(pending) = MaxPending
  /\ pending[1].timestamp = 3

\* C2: Notify with a valid type on a list of 50 entries writes the old list
\* without its first entry followed by the new entry; on a shorter list it
\* writes the old list followed by the new entry.
C2_NotifyEvictsOldest ==
  [][(IsCall("Notify") /\ lastOp'.type \in notification_types) =>
       /\ Len(pending) = MaxPending =>
            pending' = Append(Tail(pending), NewEntry(lastOp'.type))
       /\ Len(pending) < MaxPending =>
            pending' = Append(pending, NewEntry(lastOp'.type))]_vars

\* A Notify call on a full list has dropped the oldest entry and the new
\* entry is the last one.
C2_Witness ==
  /\ lastOp.op = "Notify" /\ ret.raised = ""
  /\ nCalls = 1
  /\ Len(pending) = MaxPending
  /\ pending[1].timestamp = 2
  /\ pending[MaxPending].type = lastOp.type
  /\ pending[MaxPending].timestamp = now

\* C3: DeletePendingNotification(ts) with two or more pending entries of
\* timestamp ts removes all of them from the stored pending list, adds them
\* to the stored shown list and raises UniqueKeyError.
C3_DuplicatesMovedThenRaise ==
  [][(IsCall("DeletePendingNotification")
        /\ Cardinality(Matches(lastOp'.ts)) >= 2) =>
       /\ ret'.raised = "UniqueKeyError"
       /\ \A i \in 1..Len(pending') : pending'[i].timestamp # lastOp'.ts
       /\ Len(pending') = Len(pending) - Cardinality(Matches(lastOp'.ts))
       /\ Len(shown') = Len(shown) + Cardinality(Matches(lastOp'.ts))
       /\ \A i \in Matches(lastOp'.ts) :
            \E j \in (Len(shown) + 1)..Len(shown') : shown'[j] = pending[i]]_vars

\* C4: DeletePendingNotification(ts) with exactly one pending entry of
\* timestamp ts removes that entry from pending, keeping the order of the
\* others, appends it to the end of shown and raises nothing.
C4_DeleteSingleMatch ==
  [][(IsCall("DeletePendingNotification")
        /\ Cardinality(Matches(lastOp'.ts)) = 1) =>
       LET i == CHOOSE i \in Matches(lastOp'.ts) : TRUE
       IN /\ ret'.raised = ""
          /\ pending' = Without(pending, i)
          /\ Len(pending') = Len(pending) - 1
          /\ shown' = Append(shown, pending[i])]_vars

\* A second single deletion: the entry went behind the one shown before.
C4_Witness ==
  /\ lastOp.op = "DeletePendingNotification" /\ ret.raised = ""
  /\ prevOp.op = "DeletePendingNotification"
  /\ Len(shown) = 2
  /\ shown[2].timestamp = lastOp.ts
  /\ shown[1].timestamp # lastOp.ts
  /\ Len(pending) = MaxPending - 2

\* C5: of two ShowNotifications(reset=True) calls with no call in between,
\* the first leaves pending empty, the second adds no pending entry, and
\* what the first returned is what the second returns and stores as shown.
C5_ShowTwice ==
  [][(IsCall("ShowNotifications") /\ lastOp'.reset
        /\ lastOp.op = "ShowNotifications" /\ lastOp.reset) =>
       /\ pending = <<>>
       /\ ret'.result = shown
       /\ Len(ret.result) <= Len(ret'.result)
       /\ SubSeq(ret'.result, 1, Len(ret.result)) = ret.result
       /\ ret'.result = ret.result
       /\ shown' = ret'.result
       /\ pending' = <<>>]_vars

\* Two resetting calls in a row with a history that has both parts.
C5_Witness ==
  /\ lastOp.op = "ShowNotifications" /\ lastOp.reset
  /\ prevOp.op = "ShowNotifications" /\ prevOp.reset
  /\ Len(shown) >= MaxPending
  /\ ret.result = prevRet.result

\* C6: ShowNotifications returns the stored pending entries followed by the
\* stored shown entries, each in stored order, and with reset=False it
\* leaves both stored lists as they were.
C6_ShowReturnsPendingThenShown ==
  [][IsCall("ShowNotifications") =>
       /\ Len(ret'.result) = Len(pending) + Len(shown)
       /\ \A i \in 1..Len(pending) : ret'.result[i] = pending[i]
       /\ \A j \in 1..Len(shown) : ret'.result[Len(pending) + j] = shown[j]
       /\ ret'.raised = ""
       /\ ~lastOp'.reset => (pending' = pending /\ shown' = shown)]_vars

\* A call without reset on an inbox with both pending and shown entries.
C6_Witness ==
  /\ lastOp.op = "ShowNotifications" /\ ~lastOp.reset
  /\ pending # <<>> /\ shown # <<>>
  /\ Len(ret.result) = Len(pending) + Len(shown)

\* C7: Notify with a type outside the recognized types fails with an error
\* and leaves the stored pending and shown lists as they were.
C7_InvalidTypeNoMutation ==
  [][(IsCall("Notify") /\ lastOp'.type \notin notification_types) =>
       /\ ret'.raised # ""
       /\ pending' = pending
       /\ shown' = shown]_vars

\* A rejected Notify on a full list, which an accepted one would have cut.
C7_Witness ==
  /\ lastOp.op = "Notify" /\ lastOp.type \notin notification_types
  /\ ret.raised = "TypeError"
  /\ Len(pending) = MaxPending
  /\ pending[1].timestamp = 1

\* C14: calls executed one after another never lose a notification: every
\* stored notification stays, unchanged, in pending or in shown, except the
\* first pending one when Notify finds the list full; what Notify accepts is
\* pending afterwards; and nothing ever leaves shown.
C14_NothingLost ==
  [][/\ \A j \in 1..Len(shown) : shown[j] \in Range(shown')
     /\ \A i \in 1..Len(pending) :
          \/ pending[i] \in Range(pending') \cup Range(shown')
          \/ /\ IsCall("Notify") /\ ret'.raised = ""
             /\ Len(pending) = MaxPending /\ i = 1
     /\ (IsCall("Notify") /\ ret'.raised = "") =>
          NewEntry(lastOp'.type) \in Range(pending')]_vars

\* A full list took one more notification, one entry was shown by itself,
\* and the rest was shown by a resetting call: the oldest entry is gone, all
\* others are shown.
C14_Witness ==
  /\ nCalls = 3
  /\ lastOp.op = "ShowNotifications" /\ lastOp.reset
  /\ prevOp.op = "DeletePendingNotification" /\ prevRet.raised = ""
  /\ pending = <<>>
  /\ Len(shown) = MaxPending
  /\ \A j \in 1..Len(shown) : shown[j].timestamp # 1
  /\ shown[MaxPending].timestamp = prevOp.ts

\* C15: DeletePendingNotification(ts) with no pending entry of timestamp ts,
\* an empty pending list included, raises nothing and leaves the contents of
\* pending and shown as they were.
C15_DeleteNoMatch ==
  [][(IsCall("DeletePendingNotification") /\ Matches(lastOp'.ts) = {}) =>
       /\ ret'.raised = ""
       /\ pending' = pending
       /\ shown' = shown]_vars

\* A deletion that found nothing in a list that has entries before and
\* after the timestamp asked for.
C15_Witness ==
  /\ lastOp.op = "DeletePendingNotification" /\ ret.raised = ""
  /\ pending # <<>>
  /\ \A i \in 1..Len(pending) : pending[i].timestamp # lastOp.ts
  /\ \A j \in 1..Len(shown) : shown[j].timestamp # lastOp.ts
  /\ pending[1].timestamp < lastOp.ts
  /\ pending[Len(pending)].timestamp > lastOp.ts

\* C19: with calls executed one after another and no timestamp given twice,
\* no notification is both pending and shown, and none is shown twice.
C19_PendingShownDisjoint ==
  ~stamps.repeated =>
    /\ \A i \in 1..Len(pending) : \A j \in 1..Len(shown) :
         pending[i] # shown[j]
    /\ \A i \in 1..Len(shown) : \A j \in (i + 1)..Len(shown) :
         shown[i] # shown[j]

\* After a deletion and a resetting call a new notification is pending.
C19_Witness ==
  /\ ~stamps.repeated
  /\ nCalls = 3
  /\ lastOp.op = "Notify" /\ ret.raised = ""
  /\ prevOp.op = "ShowNotifications" /\ prevOp.reset
  /\ Len(pending) = 1
  /\ Len(shown) >= MaxPending - 1
  /\ shown[Len(shown)].timestamp = 1

----------------------------------------------------------------------------
(* Properties of the global notifications *)

\* One entry per type at most, in ascending order of type, each the
\* notification added last for its type, and no added type missing.
OnePerTypeLatest(set, name) ==
  /\ \A i \in 1..Len(set) : \A j \in (i + 1)..Len(set) :
       set[i].type < set[j].type
  /\ \A i \in 1..Len(set) : set[i] = lastAdded[name][set[i].type]
  /\ \A t \in GNTypes :
       lastAdded[name][t] # NoGN => \E i \in 1..Len(set) : set[i].type = t

\* C8: after any AddNotification calls the registry's set and the user's
\* shown set hold at most one notification per type, the one added last for
\* that type, and their entries are in ascending order of type.
C8_OnePerTypeLatestSorted ==
  /\ OnePerTypeLatest(notifications, "registry")
  /\ OnePerTypeLatest(shown_global, "user")

\* A notification replaced one of its type with another content, added just
\* before, in a registry that holds the other types too, and the user's set
\* is in use.
C8_Witness ==
  /\ lastOp.op = "AddNotification"
  /\ prevOp.op = "AddNotification"
  /\ lastOp.gn.type = prevOp.gn.type
  /\ lastOp.gn # prevOp.gn
  /\ Len(notifications) = 3
  /\ notifications[1] = lastOp.gn
  /\ shown_global # <<>>

\* The registry's indices that are not marked shown and whose window holds
\* the time read for them.
Visible ==
  {i \in 1..Len(notifications) :
     /\ \A j \in 1..Len(shown_global) : shown_global[j] # notifications[i]
     /\ notifications[i].show_from <= ret.reads[i]
     /\ ret.reads[i] <= notifications[i].show_from + notifications[i].duration}

\* C9: GetPendingGlobalNotifications returns exactly the registry's
\* notifications, in registry order, that equal no entry of the user's shown
\* set and for which show_from <= now <= show_from + duration.
C9_PendingGlobalExact ==
  lastOp.op = "GetPendingGlobalNotifications" =>
    /\ Len(ret.result) = Cardinality(Visible)
    /\ \A k \in 1..Len(ret.result) :
         \E i \in Visible :
           /\ Cardinality({j \in Visible : j <= i}) = k
           /\ ret.result[k] = notifications[i]

\* One notification is marked shown, one is not yet visible, one is at the
\* last moment of its window, and exactly that one is returned.
C9_Witness ==
  /\ lastOp.op = "GetPendingGlobalNotifications"
  /\ Len(notifications) = 3
  /\ Len(ret.result) = 1
  /\ \E i \in 1..3 : notifications[i] \in Range(shown_global)
  /\ \E i \in 1..3 : notifications[i].show_from > ret.reads[i]
  /\ \E i \in 1..3 :
       /\ ret.result[1] = notifications[i]
       /\ ret.reads[i] = notifications[i].show_from + notifications[i].duration

\* C10 as stated: a notification marked shown is not returned again while
\* the registry is not modified and the user marks only notifications that
\* GetPendingGlobalNotifications returned at some time.
C10_NeverReturnedAgain ==
  lastOp.op = "GetPendingGlobalNotifications" =>
    \A i \in 1..Len(ret.result) : ret.result[i] \notin protectedAny

\* C10 amended: a notification marked shown is not returned again while the
\* registry is not modified and the user marks only notifications that
\* GetPendingGlobalNotifications returned since the registry was last
\* modified.
C10_NeverReturnedAgainFresh ==
  lastOp.op = "GetPendingGlobalNotifications" =>
    \A i \in 1..Len(ret.result) : ret.result[i] \notin protected

\* A call after two marks of returned notifications: both are in the
\* registry and in their window, and neither is returned.
C10_Witness ==
  /\ lastOp.op = "GetPendingGlobalNotifications"
  /\ Cardinality(protected) >= 2
  /\ \A n \in protected :
       \E i \in 1..Len(notifications) :
         /\ notifications[i] = n
         /\ n.show_from <= ret.reads[i]
         /\ ret.reads[i] <= n.show_from + n.duration
         /\ n \notin Range(ret.result)

\* C16: when the user's shown set holds a notification of a type and an
\* administrator then adds a notification of that type with another
\* content, GetPendingGlobalNotifications returns the new notification
\* while it is in its window; and once the user has marked it shown, the
\* user's shown set holds the new content only for that type.
C16_EditedShownAgain ==
  /\ (/\ lastOp.op = "GetPendingGlobalNotifications"
      /\ prevOp.op = "AddNotification"
      /\ \E j \in 1..Len(shown_global) :
           /\ shown_global[j].type = prevOp.gn.type
           /\ shown_global[j] # prevOp.gn) =>
       \A i \in 1..Len(notifications) :
         (/\ notifications[i] = prevOp.gn
          /\ prevOp.gn.show_from <= ret.reads[i]
          /\ ret.reads[i] <= prevOp.gn.show_from + prevOp.gn.duration) =>
           prevOp.gn \in Range(ret.result)
  /\ lastOp.op = "MarkGlobalNotificationAsShown" =>
       \A j \in 1..Len(shown_global) :
         shown_global[j].type = lastOp.gn.type => shown_global[j] = lastOp.gn

\* The user marked the registry's notification of a type, which an earlier
\* call had returned; the administrator replaced it; the new one is returned.
C16_Witness ==
  /\ lastOp.op = "GetPendingGlobalNotifications"
  /\ prevOp.op = "AddNotification"
  /\ prevOp.gn \in Range(ret.result)
  /\ \E j \in 1..Len(shown_global) :
       /\ shown_global[j].type = prevOp.gn.type
       /\ shown_global[j] # prevOp.gn
       /\ shown_global[j].message # prevOp.gn.message
       /\ shown_global[j] \in everReturned
       /\ shown_global[j] \notin Range(notifications)

----------------------------------------------------------------------------
(* Properties of the passwords *)

\* C11: on a password set with a generated salt, CheckPassword returns true
\* for the password that was set and false for every other password.
C11_RoundTripGeneratedSalt ==
  (pwCall.op = "CheckPassword" /\ pwSet.kind = "generated") =>
    /\ pwCall.password = pwSet.password => pwRet.outcome = "True"
    /\ pwCall.password # pwSet.password => pwRet.outcome = "False"

\* A check that failed on a password set with a generated salt: the two
\* passwords differ in one character only.
C11_Witness ==
  /\ pwCall.op = "CheckPassword" /\ pwSet.kind = "generated"
  /\ pwSet.password = <<"a">> /\ pwCall.password = <<"b">>
  /\ pwRet.outcome = "False"
  /\ pwRet.salt = Hex(171, SaltDigits)
  /\ pwRet.steps = Len(password[1])

C17_RoundTripGivenSalt ==
  (pwCall.op = "CheckPassword" /\ pwSet.kind = "given"
     /\ pwCall.password = pwSet.password) =>
    /\ pwRet.salt = pwSet.salt
    /\ pwRet.outcome = "True"

\* C18: safe_str_cmp(a, b) returns true exactly when a and b are equal; when
\* the lengths differ it looks at no pair of characters, when they are equal
\* it looks at every pair, wherever the first difference is.
C18_SafeStrCmp ==
  pwCall.op = "safe_str_cmp" =>
    /\ pwRet.outcome = (IF pwCall.a = pwCall.b THEN "True" ELSE "False")
    /\ Len(pwCall.a) # Len(pwCall.b) => pwRet.steps = 0
    /\ Len(pwCall.a) = Len(pwCall.b) => pwRet.steps = Len(pwCall.a)

\* Two strings of the same length that differ in their first character: the
\* second pair was looked at too.
C18_Witness ==
  /\ pwCall.op = "safe_str_cmp"
  /\ Len(pwCall.a) = MaxStrLen /\ Len(pwCall.b) = MaxStrLen
  /\ pwCall.a[1] # pwCall.b[1]
  /\ pwCall.a[MaxStrLen] = pwCall.b[MaxStrLen]
  /\ pwRet.outcome = "False"
  /\ pwRet.steps = MaxStrLen

----------------------------------------------------------------------------
(* Properties of interleaved calls *)

\* The position in events of the given read or write, 0 if there is none.
EventAt(c, kind, field) ==
  LET hits == {k \in 1..Len(events) :
                 /\ events[k].c = c /\ events[k].kind = kind
                 /\ events[k].field = field}
  IN IF hits = {} THEN 0 ELSE CHOOSE k \in hits : TRUE

\* The entry the given Notify call wrote.
EntryOf(c) == events[EventAt(c, "write", "pending")].entry[1]

\* The Notify call that wrote last, the other one.
LastWriter ==
  IF EventAt("n1", "write", "pending") > EventAt("n2", "write", "pending")
    THEN "n1" ELSE "n2"
FirstWriter == IF LastWriter = "n1" THEN "n2" ELSE "n1"

\* C13: when two Notify calls have both read the same pending list and both
\* have completed (no other call running), the stored pending list is that
\* list followed by the notification of the call that wrote last, and by
\* nothing else: the notification of the other call is not stored.
C13_LostUpdate ==
  (/\ pc["n1"] = "done" /\ pc["n2"] = "done" /\ pc["s"] = "start"
   /\ EventAt("n1", "read", "pending") < EventAt("n2", "write", "pending")
   /\ EventAt("n2", "read", "pending") < EventAt("n1", "write", "pending")) =>
    /\ local["n1"].pending = local["n2"].pending
    /\ Len(pending) = Len(local[LastWriter].pending) + 1
    /\ \A i \in 1..Len(local[LastWriter].pending) :
         pending[i] = local[LastWriter].pending[i]
    /\ pending[Len(pending)] = EntryOf(LastWriter)

\* Both calls completed, the list is below its limit, and the notification
\* of the call that wrote first is neither pending nor shown.
C13_Witness ==
  /\ pc["n1"] = "done" /\ pc["n2"] = "done" /\ pc["s"] = "start"
  /\ EventAt("n1", "read", "pending") < EventAt("n2", "write", "pending")
  /\ EventAt("n2", "read", "pending") < EventAt("n1", "write", "pending")
  /\ Len(pending) < MaxPending
  /\ Len(pending) = 2
  /\ EntryOf(FirstWriter) \notin Range(pending) \cup Range(shown)
  /\ EntryOf(LastWriter) \in Range(pending)

\* Some notification is both pending and shown.
ShownAndPending ==
  \E i \in 1..Len(pending) : \E j \in 1..Len(shown) : pending[i] = shown[j]

====
